---- MODULE Spec2Model ----
(***************************************************************************)
(* A model of the conversational agent of ch3/13_use_prompt:               *)
(*   client.py  MCPClient : the connection to the tool server              *)
(*   agent.py   Agent     : context selection, context loading and the     *)
(*                          tool-use loop of Agent.run                     *)
(* The LLM API and the MCP session are the environment: every reply they   *)
(* give, and every failure they raise, is drawn from a small set.          *)
(***************************************************************************)
EXTENDS Naturals, Sequences, FiniteSets

VARIABLES
    pc,                      \* position of Agent.run
    client,                  \* MCPClient: _connected, _session, _exit_stack
    available_resources,     \* Agent.available_resources (the names)
    available_prompts,       \* Agent.available_prompts (the names)
    available_tools,         \* local of Agent.run, listed at startup
    prompt,                  \* local of Agent.run: the query read from the user
    selected_resource_names, \* local of Agent.run, shown until the model is called
    selected_prompt_names,   \* local of Agent.run, shown until the model is called
    context_messages,        \* local of Agent.run, shown until the model is called
    system_instructions,     \* local of Agent.run, shown until the tool-use loop ends
    conversation_messages,   \* local of Agent.run, kept until line 291 rebinds it
    tool_loop_iteration,     \* local of Agent.run
    tool_idx,                \* position of the for loop over tool_use_blocks
    tool_results,            \* local of Agent.run
    raised,                  \* the error that left Agent.run, "none" if none
    disconnect_calls,        \* observer: calls of MCPClient.disconnect
    late_ops,                \* observer: transport/model operations after a disconnect
    cycle,                   \* observer: what the current query cycle has done
    round_calls,             \* observer: tools invoked since the last model call
    sel_replies,             \* observer: what the selection calls of the cycle returned
    last_refresh,            \* observer: how the latest _refresh ended
    dropped,                 \* observer: the names the latest successful _refresh removed
    loads,                   \* observer: what the loadings of the cycle asked of the client
    client_calls             \* observer: the calls made on the client, with its state around each

vars == << pc, client, available_resources, available_prompts, available_tools,
           prompt, selected_resource_names, selected_prompt_names,
           context_messages, system_instructions, conversation_messages,
           tool_loop_iteration, tool_idx, tool_results, raised,
           disconnect_calls, late_ops, cycle, round_calls, sel_replies,
           last_refresh, dropped, loads, client_calls >>

-----------------------------------------------------------------------------
(* Bounds *)

\* the tool-use loop of one query cycle makes at most this many model calls
MaxToolIters == 2

\* a selection reply has at most this many tokens (pure selection runs)
MaxTextLen == 4

-----------------------------------------------------------------------------
(* Sequences *)

RECURSIVE FilterSeq(_, _)
\* [x for x in s if x \in keep]
FilterSeq(s, keep) ==
    IF s = << >> THEN << >>
    ELSE IF Head(s) \in keep
         THEN << Head(s) >> \o FilterSeq(Tail(s), keep)
         ELSE FilterSeq(Tail(s), keep)

Range(s) == { s[i] : i \in 1..Len(s) }

-----------------------------------------------------------------------------
(* client.py : MCPClient *)

\* MCPClient.__init__
NewClient == [ connected |-> FALSE, session |-> FALSE, exit_stack |-> << >> ]

ConnectOutcomes == { "ok", "stdio_fail", "session_fail", "initialize_fail" }

\* a connect without the test of lines 43-44
connect_unguarded(c, outcome) ==
    CASE outcome = "stdio_fail" ->
            [ client |-> c, raised |-> TRUE ]
      [] outcome = "session_fail" ->
            [ client |-> [ c EXCEPT !.exit_stack = @ \o << "stdio" >> ],
              raised |-> TRUE ]
      [] outcome = "initialize_fail" ->
            [ client |-> [ c EXCEPT !.exit_stack = @ \o << "stdio", "session" >>,
                                    !.session = TRUE ],
              raised |-> TRUE ]
      [] OTHER ->
            [ client |-> [ c EXCEPT !.exit_stack = @ \o << "stdio", "session" >>,
                                    !.session = TRUE,
                                    !.connected = TRUE ],
              raised |-> FALSE ]

\* MCPClient.connect: what the client holds afterwards and whether it raised
connect(c, outcome) ==
    IF c.connected
    THEN [ client |-> c, raised |-> TRUE ]
    ELSE CASE outcome = "stdio_fail" ->
                [ client |-> c, raised |-> TRUE ]
           [] outcome = "session_fail" ->
                [ client |-> [ c EXCEPT !.exit_stack = @ \o << "stdio" >> ],
                  raised |-> TRUE ]
           [] outcome = "initialize_fail" ->
                [ client |-> [ c EXCEPT !.exit_stack = @ \o << "stdio", "session" >>,
                                        !.session = TRUE ],
                  raised |-> TRUE ]
           [] OTHER ->
                [ client |-> [ c EXCEPT !.exit_stack = @ \o << "stdio", "session" >>,
                                        !.session = TRUE,
                                        !.connected = TRUE ],
                  raised |-> FALSE ]

\* a disconnect that closes the stack and leaves the session field
disconnect_keeping_session(c) ==
    [ c EXCEPT !.exit_stack = << >>, !.connected = FALSE ]

\* a disconnect that does nothing for a client that is not connected
disconnect_if_connected(c) ==
    IF c.connected
    THEN [ c EXCEPT !.exit_stack = << >>, !.connected = FALSE, !.session = FALSE ]
    ELSE c

\* MCPClient.disconnect: an AsyncExitStack object is always true, so the
\* stack is always closed and the fields reset
disconnect(c) ==
    [ c EXCEPT !.exit_stack = << >>, !.connected = FALSE, !.session = FALSE ]

\* a guard that tests the session instead of the flag
NotConnectedBySession(c) == ~ c.session

\* the guard every session operation starts with
NotConnected(c) == ~ c.connected

-----------------------------------------------------------------------------
(* agent.py : the reply of a selection call and its decoding               *)
(* A reply text is a sequence of tokens: the brackets, prose, and JSON     *)
(* values (a string, an object).  The separators between the values of an  *)
(* array are not modelled.                                                  *)

LB    == [ t |-> "[",     v |-> "", has_name |-> FALSE, has_args |-> FALSE ]
RB    == [ t |-> "]",     v |-> "", has_name |-> FALSE, has_args |-> FALSE ]
Prose == [ t |-> "prose", v |-> "", has_name |-> FALSE, has_args |-> FALSE ]
\* a JSON string
Str(n) == [ t |-> "str", v |-> n, has_name |-> FALSE, has_args |-> FALSE ]
\* a JSON object with a "name" key, with or without an "arguments" key
Obj(n, args) == [ t |-> "obj", v |-> n, has_name |-> TRUE, has_args |-> args ]
\* a JSON object without a "name" key
ObjNoName == [ t |-> "obj", v |-> "", has_name |-> FALSE, has_args |-> TRUE ]
\* a decoded nested array
ListValue == [ t |-> "list", v |-> "", has_name |-> FALSE, has_args |-> FALSE ]

\* "[" in response_text, "]" in response_text
HasToken(text, tok) == \E i \in 1..Len(text) : text[i] = tok

\* response_text.find(tok), 1-based; the token occurs
Find(text, tok) ==
    CHOOSE i \in 1..Len(text) :
        text[i] = tok /\ \A j \in 1..(i - 1) : text[j] # tok

\* response_text.rfind(tok), 1-based; the token occurs
RFind(text, tok) ==
    CHOOSE i \in 1..Len(text) :
        text[i] = tok /\ \A j \in (i + 1)..Len(text) : text[j] # tok

\* response_text[start:end]: empty when the last "]" is before the first "["
json_part(text) == SubSeq(text, Find(text, LB), RFind(text, RB))

RECURSIVE ScanArray(_, _, _, _)
\* the scan of json.loads over an array: i is the next token, depth the
\* number of open arrays, acc the values of the outermost array so far
ScanArray(toks, i, depth, acc) ==
    IF i > Len(toks) THEN [ ok |-> FALSE, value |-> << >> ]
    ELSE LET tok == toks[i] IN
         CASE tok = Prose -> [ ok |-> FALSE, value |-> << >> ]
           [] tok = LB ->
                ScanArray(toks, i + 1, depth + 1,
                          IF depth = 1 THEN Append(acc, ListValue) ELSE acc)
           [] tok = RB ->
                IF depth = 1
                THEN [ ok |-> (i = Len(toks)), value |-> IF i = Len(toks) THEN acc ELSE << >> ]
                ELSE ScanArray(toks, i + 1, depth - 1, acc)
           [] OTHER ->
                ScanArray(toks, i + 1, depth,
                          IF depth = 1 THEN Append(acc, tok) ELSE acc)

\* json.loads(json_part): the decoded array, or a failure (ok = FALSE)
json_loads(toks) ==
    IF toks = << >> \/ Head(toks) # LB
    THEN [ ok |-> FALSE, value |-> << >> ]
    ELSE ScanArray(toks, 2, 1, << >>)

\* a selection reply: the call raised, or it returned this text
CallFailed == [ failed |-> TRUE, text |-> << >> ]
Reply(text) == [ failed |-> FALSE, text |-> text ]

\* r in self.available_resources raises for an unhashable r (object, array)
Hashable(r) == r.t = "str"

\* p["name"] raises unless p is an object with that key
HasNameKey(p) == p.t = "obj" /\ p.has_name

\* the Python strings of a sequence of JSON strings
StrValues(vals) == [ i \in 1..Len(vals) |-> vals[i].v ]

\* [r for r in selected_resources if r in self.available_resources]
FilterResources(decoded, catalog) ==
    IF \E i \in 1..Len(decoded) : ~ Hashable(decoded[i])
    THEN [ raised |-> TRUE, result |-> << >> ]
    ELSE [ raised |-> FALSE,
           result |-> StrValues(FilterSeq(decoded, { Str(n) : n \in catalog })) ]

\* [p for p in selected_prompts if p["name"] in self.available_prompts]
FilterPrompts(decoded, catalog) ==
    IF \E i \in 1..Len(decoded) : ~ HasNameKey(decoded[i])
    THEN [ raised |-> TRUE, result |-> << >> ]
    ELSE [ raised |-> FALSE,
           result |-> FilterSeq(decoded, { Obj(n, a) : n \in catalog, a \in BOOLEAN }) ]

\* what a selection returns: the result, how it came about, whether the
\* model was called and whether an error reached the caller
Selection(result, status, called) ==
    [ result |-> result, status |-> status, called |-> called, raised |-> FALSE ]

\* the list comprehension of the selection of this kind
FilterFor(kind, decoded, catalog) ==
    IF kind = "resources" THEN FilterResources(decoded, catalog)
    ELSE FilterPrompts(decoded, catalog)

\* the try of both selections, after the catalog check: every failure of
\* the call, of the decoding and of the filter is caught by the except and
\* the empty list returned
SelectFrom(kind, reply, catalog) ==
    IF reply.failed
    THEN Selection(<< >>, "call_failed", TRUE)
    ELSE IF ~ (HasToken(reply.text, LB) /\ HasToken(reply.text, RB))
    THEN Selection(<< >>, "no_brackets", TRUE)
    ELSE LET decoded == json_loads(json_part(reply.text)) IN
         IF ~ decoded.ok
         THEN Selection(<< >>, "bad_json", TRUE)
         ELSE LET f == FilterFor(kind, decoded.value, catalog) IN
              IF f.raised
              THEN Selection(<< >>, "filter_error", TRUE)
              ELSE Selection(f.result, "ok", TRUE)

\* the early return of both selections for an empty catalog
NoCatalog == Selection(<< >>, "no_catalog", FALSE)

\* a selection that calls the model whatever the catalog
select_resources_unchecked(catalog, reply) ==
    SelectFrom("resources", reply, catalog)

\* a selection whose failures are not caught
select_resources_uncaught(catalog, reply) ==
    IF catalog = {} THEN NoCatalog
    ELSE LET r == SelectFrom("resources", reply, catalog) IN
         [ r EXCEPT !.raised = (r.status # "ok") ]

\* Agent._select_resources
_select_resources(catalog, reply) ==
    IF catalog = {} THEN NoCatalog
    ELSE SelectFrom("resources", reply, catalog)

\* Agent._select_prompts: the selected prompts are Obj values
_select_prompts(catalog, reply) ==
    IF catalog = {} THEN NoCatalog
    ELSE SelectFrom("prompts", reply, catalog)

-----------------------------------------------------------------------------
(* agent.py : context loading *)

\* what session.read_resource returns: text contents and blob contents
TextPart == [ kind |-> "text", mimeType |-> "text/plain",      body |-> "pi = 3.14159" ]
PngPart  == [ kind |-> "blob", mimeType |-> "image/png",       body |-> "iVBORw0KGgo=" ]
PdfPart  == [ kind |-> "blob", mimeType |-> "application/pdf", body |-> "JVBERi0xLjQ=" ]

ImageTypes == { "image/jpeg", "image/png", "image/gif", "image/webp" }

\* MCPClient.get_resource: raises when not connected or when the session
\* raises, else returns the contents read
get_resource(c, fetch) ==
    IF NotConnected(c) \/ fetch.raised
    THEN [ raised |-> TRUE, contents |-> << >> ]
    ELSE [ raised |-> FALSE, contents |-> fetch.contents ]

RECURSIVE BlocksOf(_, _)
\* the loop over resource_contents: a part that is neither text nor a known
\* image reaches the print of line 181, which reads .mimeType of the list
\* and raises; the except of line 184 then ends the loop for this resource
BlocksOf(resource_name, contents) ==
    IF contents = << >> THEN << >>
    ELSE LET content == Head(contents) IN
         IF content.kind = "text"
         THEN << [ type |-> "text", resource |-> resource_name, text |-> content.body ] >>
              \o BlocksOf(resource_name, Tail(contents))
         ELSE IF content.mimeType \in ImageTypes
         THEN << [ type |-> "image", media_type |-> content.mimeType, data |-> content.body ] >>
              \o BlocksOf(resource_name, Tail(contents))
         ELSE << >>

RECURSIVE LoadResourcesUntilError(_, _, _, _, _)
\* a loading whose first failed fetch ends the loop over the names
LoadResourcesUntilError(i, resource_names, catalog, c, fetches) ==
    IF i > Len(resource_names) THEN << >>
    ELSE LET got == get_resource(c, fetches[i]) IN
         IF resource_names[i] \in catalog /\ got.raised THEN << >>
         ELSE ( IF resource_names[i] \in catalog
                THEN BlocksOf(resource_names[i], got.contents)
                ELSE << >> )
              \o LoadResourcesUntilError(i + 1, resource_names, catalog, c, fetches)

RECURSIVE LoadResourcesFrom(_, _, _, _, _)
\* the loop over resource_names, from the i-th name on
LoadResourcesFrom(i, resource_names, catalog, c, fetches) ==
    IF i > Len(resource_names) THEN << >>
    ELSE LET got == get_resource(c, fetches[i]) IN
         ( IF resource_names[i] \in catalog /\ ~ got.raised
           THEN BlocksOf(resource_names[i], got.contents)
           ELSE << >> )
         \o LoadResourcesFrom(i + 1, resource_names, catalog, c, fetches)

\* Agent._load_selected_resources; fetches[i] is what the fetch of the i-th
\* name does
_load_selected_resources(resource_names, catalog, c, fetches) ==
    LoadResourcesFrom(1, resource_names, catalog, c, fetches)

\* the transport calls of _load_selected_resources
ResourceFetches(resource_names, catalog) ==
    Cardinality({ i \in 1..Len(resource_names) : resource_names[i] \in catalog })

RECURSIVE FetchesMade(_, _, _, _, _)
\* the calls of get_resource that _load_selected_resources makes, in order:
\* one for every name of the catalog, whatever the earlier ones did
FetchesMade(i, resource_names, catalog, c, fetches) ==
    IF i > Len(resource_names) THEN << >>
    ELSE ( IF resource_names[i] \in catalog
           THEN << [ name |-> resource_names[i],
                     raised |-> get_resource(c, fetches[i]).raised,
                     contents |-> get_resource(c, fetches[i]).contents ] >>
           ELSE << >> )
         \o FetchesMade(i + 1, resource_names, catalog, c, fetches)

\* what session.get_prompt returns: messages with or without text
TextMessage  == [ has_text |-> TRUE,  text |-> "Think step by step." ]
BlankMessage == [ has_text |-> TRUE,  text |-> " " ]
ImageMessage == [ has_text |-> FALSE, text |-> "" ]

\* str.strip() is empty
IsBlank(text) == text \in { "", " " }

\* MCPClient.load_prompt
load_prompt(c, render) ==
    IF NotConnected(c) \/ render.raised
    THEN [ raised |-> TRUE, messages |-> << >> ]
    ELSE [ raised |-> FALSE, messages |-> render.messages ]

RECURSIVE PromptText(_)
\* prompt_text: the texts of the messages that have one
PromptText(messages) ==
    IF messages = << >> THEN << >>
    ELSE ( IF Head(messages).has_text THEN << Head(messages).text >> ELSE << >> )
         \o PromptText(Tail(messages))

\* the body of the loop of _load_selected_prompts for one prompt:
\* prompt["arguments"] raises for an object without that key
InstructionOf(p, catalog, c, render) ==
    IF p.v \notin catalog \/ ~ p.has_args THEN << >>
    ELSE LET got == load_prompt(c, render) IN
         IF got.raised THEN << >>
         ELSE LET prompt_text == PromptText(got.messages) IN
              IF \A i \in 1..Len(prompt_text) : IsBlank(prompt_text[i])
              THEN << >>
              ELSE << [ prompt |-> p.v, text |-> prompt_text ] >>

RECURSIVE LoadPromptsFrom(_, _, _, _, _)
LoadPromptsFrom(i, prompts, catalog, c, renders) ==
    IF i > Len(prompts) THEN << >>
    ELSE InstructionOf(prompts[i], catalog, c, renders[i])
         \o LoadPromptsFrom(i + 1, prompts, catalog, c, renders)

\* Agent._load_selected_prompts: the joined string is kept as the sequence
\* of its tagged parts; the empty sequence is the empty string
_load_selected_prompts(prompts, catalog, c, renders) ==
    LoadPromptsFrom(1, prompts, catalog, c, renders)

\* the transport calls of _load_selected_prompts
PromptRenders(prompts, catalog) ==
    Cardinality({ i \in 1..Len(prompts) :
                    prompts[i].v \in catalog /\ prompts[i].has_args })

RECURSIVE RendersMade(_, _, _, _, _)
\* the calls of load_prompt that _load_selected_prompts makes, in order: one
\* for every prompt of the catalog whose arguments can be read
RendersMade(i, prompts, catalog, c, renders) ==
    IF i > Len(prompts) THEN << >>
    ELSE ( IF prompts[i].v \in catalog /\ prompts[i].has_args
           THEN << [ name |-> prompts[i].v,
                     raised |-> load_prompt(c, renders[i]).raised,
                     messages |-> load_prompt(c, renders[i]).messages ] >>
           ELSE << >> )
         \o RendersMade(i + 1, prompts, catalog, c, renders)

-----------------------------------------------------------------------------
(* agent.py : _refresh *)

RefreshOutcomes == { "ok", "resources_fail", "prompts_fail" }

\* a refresh that adds the listed entries to the catalogs it has
refresh_merging(resources, prompts, c, outcome, listed_resources, listed_prompts) ==
    IF NotConnected(c) \/ outcome = "resources_fail"
    THEN [ resources |-> resources, prompts |-> prompts, raised |-> TRUE ]
    ELSE IF outcome = "prompts_fail"
    THEN [ resources |-> resources \cup listed_resources, prompts |-> prompts,
           raised |-> TRUE ]
    ELSE [ resources |-> resources \cup listed_resources,
           prompts |-> prompts \cup listed_prompts, raised |-> FALSE ]

\* Agent._refresh: the catalogs afterwards and whether it raised
_refresh(resources, prompts, c, outcome, listed_resources, listed_prompts) ==
    IF NotConnected(c) \/ outcome = "resources_fail"
    THEN [ resources |-> resources, prompts |-> prompts, raised |-> TRUE ]
    ELSE IF outcome = "prompts_fail"
    THEN [ resources |-> listed_resources, prompts |-> prompts, raised |-> TRUE ]
    ELSE [ resources |-> listed_resources, prompts |-> listed_prompts,
           raised |-> FALSE ]

\* what the latest _refresh was given: how its listings ended and what the
\* server listed (nothing, for a listing that failed or was not reached)
NoRefresh == [ outcome |-> "none", resources |-> {}, prompts |-> {} ]
RefreshSeen(c, outcome, listed_resources, listed_prompts) ==
    IF NotConnected(c) \/ outcome = "resources_fail"
    THEN [ outcome |-> "resources_fail", resources |-> {}, prompts |-> {} ]
    ELSE IF outcome = "prompts_fail"
    THEN [ outcome |-> "prompts_fail", resources |-> listed_resources, prompts |-> {} ]
    ELSE [ outcome |-> "ok", resources |-> listed_resources,
           prompts |-> listed_prompts ]

-----------------------------------------------------------------------------
(* agent.py : the main model call and the tool-use loop *)

Text(str) == [ type |-> "text", text |-> str ]
ToolUse(id, name) == [ type |-> "tool_use", id |-> id, name |-> name ]

\* the responses a main model call may return: the stop reason and the
\* content blocks
Response(stop_reason, content) == [ stop_reason |-> stop_reason, content |-> content ]

\* line 326: the test that keeps the tool-use loop going
WantsTools(response) == response.stop_reason = "tool_use"

Responses ==
    { Response("tool_use", << >>),
      Response("tool_use", << Text("Let me think.") >>),
      Response("tool_use", << ToolUse("A", "add") >>),
      Response("tool_use", << Text("Let me compute."), ToolUse("B", "mul"),
                              ToolUse("A", "add") >>),
      Response("end_turn", << >>),
      Response("end_turn", << Text(" "), Text("4"), Text("four") >>),
      Response("end_turn", << Text("Let me compute."), ToolUse("B", "mul"),
                              ToolUse("A", "add") >>),
      Response("max_tokens", << Text(" "), Text("4"), Text("four") >>) }

RECURSIVE ToolUseBlocks(_)
\* [block for block in current_response.content if block.type == "tool_use"]
ToolUseBlocks(content) ==
    IF content = << >> THEN << >>
    ELSE ( IF Head(content).type = "tool_use" THEN << Head(content) >> ELSE << >> )
         \o ToolUseBlocks(Tail(content))

RECURSIVE TextBlocks(_)
\* [content.text for content in current_response.content
\*  if hasattr(content, "text") and content.text.strip()]
TextBlocks(content) ==
    IF content = << >> THEN << >>
    ELSE ( IF Head(content).type = "text" /\ ~ IsBlank(Head(content).text)
           THEN << Head(content).text >> ELSE << >> )
         \o TextBlocks(Tail(content))

NoTextResponse == "[No text response available]"

\* an answer that takes the first text block, blank or not
FinalAnswerAnyText(content) ==
    IF \E i \in 1..Len(content) : content[i].type = "text"
    THEN content[CHOOSE i \in 1..Len(content) :
                    /\ content[i].type = "text"
                    /\ \A j \in 1..(i - 1) : content[j].type # "text"].text
    ELSE NoTextResponse

\* the line printed after "Assistant: "
FinalAnswer(content) ==
    IF TextBlocks(content) # << >> THEN TextBlocks(content)[1] ELSE NoTextResponse

\* what session.call_tool does: it raises (the server answered with a
\* protocol error, or the channel is closed), or it returns a result, which
\* may be an error payload
ToolReplies ==
    { [ raised |-> "none", isError |-> FALSE, content |-> << Text("4") >> ],
      [ raised |-> "none", isError |-> TRUE,
        content |-> << Text("Error executing tool") >> ],
      [ raised |-> "mcp_error",        isError |-> FALSE, content |-> << >> ],
      [ raised |-> "transport_closed", isError |-> FALSE, content |-> << >> ] }

\* MCPClient.use_tool: the texts of the result's content
use_tool(c, reply) ==
    IF NotConnected(c)
    THEN [ raised |-> "not_connected", results |-> << >> ]
    ELSE IF reply.raised # "none"
    THEN [ raised |-> reply.raised, results |-> << >> ]
    ELSE [ raised |-> "none",
           results |-> [ i \in 1..Len(reply.content) |-> reply.content[i].text ] ]

\* how a tool invocation ended, for the observers
ToolOutcome(reply, used) ==
    IF used.raised # "none" THEN used.raised
    ELSE IF reply.isError THEN "error_payload" ELSE "ok"

\* a tool_result block correlated by the tool's name
ToolResultByName(tool_use, results) ==
    [ type |-> "tool_result", tool_use_id |-> tool_use.name, content |-> results ]

\* the tool_result block of one invocation; the joined string is kept as
\* the sequence of its lines
ToolResult(tool_use, results) ==
    [ type |-> "tool_result", tool_use_id |-> tool_use.id, content |-> results ]

UserTurn(content) == [ role |-> "user", content |-> content ]

\* an assistant turn that keeps the text blocks only
AssistantTurnTextOnly(content) ==
    [ role |-> "assistant",
      content |-> SelectSeq(content, LAMBDA block : block.type = "text") ]

AssistantTurn(content) == [ role |-> "assistant", content |-> content ]

\* an append that overwrites the latest message
ReplaceLastTurn(conversation, message) ==
    Append(SubSeq(conversation, 1, Len(conversation) - 1), message)

\* conversation_messages.append(message)
AppendTurn(conversation, message) == Append(conversation, message)

\* the tool_use blocks of the response being executed
CurrentToolUses ==
    ToolUseBlocks(conversation_messages[Len(conversation_messages)].content)

-----------------------------------------------------------------------------
(* agent.py : Agent.run *)

ResourceNames == { "r1", "r2" }
PromptNames == { "p1", "p2" }
ToolNames == { "add", "mul" }

\* what the server may list
ResourceCatalogs == { {}, { "r1" }, { "r1", "r2" } }
PromptCatalogs == { {}, { "p1", "p2" } }
ToolCatalogs == { {}, ToolNames }

\* the lines the user may type
Inputs == { "goodbye", "Goodbye", "refresh", "REFRESH", "What is 2+2?" }

\* a comparison of the line as typed
lower_unchanged(str) == str

\* str.lower() on those lines
lower(str) ==
    CASE str = "Goodbye" -> "goodbye"
      [] str = "REFRESH" -> "refresh"
      [] OTHER -> str

NewCycle ==
    [ select_calls |-> 0, main_calls |-> 0, tool_calls |-> 0,
      requested |-> 0, tool_use_responses |-> 0, answers |-> << >>,
      main_failed |-> FALSE, instructed |-> FALSE, with_system |-> 0,
      wants_tools |-> FALSE, content |-> << >>, messages |-> << >>,
      tools |-> {} ]

\* no selection call was made
NoReply == [ failed |-> FALSE, text |-> << >>, made |-> FALSE ]
NoReplies == [ resources |-> NoReply, prompts |-> NoReply ]

\* the reply of a selection call that was made
Made(reply) == [ failed |-> reply.failed, text |-> reply.text, made |-> TRUE ]

\* what the loadings asked of the client: for each resource fetched and
\* each prompt rendered, in call order, its name and what the client answered
NoLoads == [ fetched |-> << >>, rendered |-> << >> ]

\* one call on the client: the method, what the server side did, the error
\* raised (if any), whether a request reached the session, and the client's
\* fields before and after
Call(op, outcome, err, sent, before, after) ==
    [ op |-> op, outcome |-> outcome, raised |-> err, sent |-> sent,
      before |-> before, after |-> after ]

\* connect reaches the session when it gets as far as initialize
ConnectSends(c, outcome) ==
    ~ c.connected /\ outcome \in { "initialize_fail", "ok" }

Init ==
    /\ pc = "start"
    /\ client = NewClient
    /\ available_resources = {}
    /\ available_prompts = {}
    /\ available_tools = {}
    /\ prompt = ""
    /\ selected_resource_names = << >>
    /\ selected_prompt_names = << >>
    /\ context_messages = << >>
    /\ system_instructions = << >>
    /\ conversation_messages = << >>
    /\ tool_loop_iteration = 0
    /\ tool_idx = 0
    /\ tool_results = << >>
    /\ raised = "none"
    /\ disconnect_calls = 0
    /\ late_ops = 0
    /\ cycle = NewCycle
    /\ round_calls = << >>
    /\ sel_replies = NoReplies
    /\ last_refresh = NoRefresh
    /\ dropped = {}
    /\ loads = NoLoads
    /\ client_calls = << >>

\* a finally that disconnects only a connected client
run_finally_if_connected(c) ==
    IF c.connected THEN [ client |-> disconnect(c), calls |-> 1 ]
    ELSE [ client |-> c, calls |-> 0 ]

\* the finally of Agent.run: what the client holds afterwards and how many
\* times disconnect was called
run_finally(c) == [ client |-> disconnect(c), calls |-> 1 ]

\* Agent.run is left: the finally runs, then the error (if any) goes on
LeaveAfter(calls, c, err) ==
    /\ client' = run_finally(c).client
    /\ disconnect_calls' = disconnect_calls + run_finally(c).calls
    /\ client_calls' =
         IF run_finally(c).calls = 0 THEN calls
         ELSE Append(calls, Call("disconnect", "ok", "none", FALSE, c,
                                 run_finally(c).client))
    /\ raised' = err
    /\ pc' = "done"

\* Agent.run is left by anything but a failed connect
Leave(c, err) == LeaveAfter(client_calls, c, err)

\* a transport or model operation is made now
Operate == late_ops' = late_ops + (IF disconnect_calls > 0 THEN 1 ELSE 0)

agentVars == << available_resources, available_prompts, available_tools >>
loopVars == << selected_resource_names, selected_prompt_names,
               context_messages, system_instructions, conversation_messages,
               tool_loop_iteration, tool_idx, tool_results >>
localVars == << prompt, loopVars >>
cycleVars == << cycle, round_calls, sel_replies, loads >>
refreshVars == << last_refresh, dropped >>

\* line 242: await self.mcp_client.connect()
Connect ==
    /\ pc = "start"
    /\ \E outcome \in ConnectOutcomes :
         LET r == connect(client, outcome)
             calls == Append(client_calls,
                             Call("connect", outcome,
                                  IF r.raised THEN "connect" ELSE "none",
                                  ConnectSends(client, outcome),
                                  client, r.client))
         IN IF r.raised
            THEN LeaveAfter(calls, r.client, "connect")
            ELSE /\ client' = r.client
                 /\ client_calls' = calls
                 /\ pc' = "list_tools"
                 /\ UNCHANGED << raised, disconnect_calls >>
    /\ Operate
    /\ UNCHANGED << agentVars, localVars, cycleVars, refreshVars >>

\* MCPClient.get_available_tools: the names of the tools listed
get_available_tools(c, failed, listed) ==
    IF NotConnected(c) \/ failed
    THEN [ raised |-> TRUE, tools |-> {} ]
    ELSE [ raised |-> FALSE, tools |-> listed ]

\* line 244: available_tools = await self.mcp_client.get_available_tools()
GetAvailableTools ==
    /\ pc = "list_tools"
    /\ \E failed \in BOOLEAN, listed \in ToolCatalogs :
         LET r == get_available_tools(client, failed, listed) IN
         IF r.raised
         THEN /\ Leave(client, "list_tools")
              /\ UNCHANGED available_tools
         ELSE /\ available_tools' = r.tools
              /\ pc' = "startup_refresh"
              /\ UNCHANGED << client, raised, disconnect_calls, client_calls >>
    /\ Operate
    /\ UNCHANGED << available_resources, available_prompts, localVars, cycleVars,
                    refreshVars >>

\* what a listing of _refresh may return: nothing when it is not reached
\* or fails
ListedBy(reached, catalogs) == IF reached THEN catalogs ELSE { {} }

\* the call of _refresh at line 246 or line 265
Refreshing ==
    \E outcome \in RefreshOutcomes :
    \E listed_resources \in ListedBy(outcome # "resources_fail", ResourceCatalogs),
       listed_prompts \in ListedBy(outcome = "ok", PromptCatalogs) :
         LET r == _refresh(available_resources, available_prompts, client,
                           outcome, listed_resources, listed_prompts) IN
         /\ available_resources' = r.resources
         /\ available_prompts' = r.prompts
         /\ last_refresh' = RefreshSeen(client, outcome, listed_resources,
                                          listed_prompts)
         /\ dropped' = IF r.raised THEN dropped
                       ELSE (available_resources \ r.resources)
                            \cup (available_prompts \ r.prompts)
         /\ IF r.raised
            THEN Leave(client, "refresh")
            ELSE /\ pc' = "await_input"
                 /\ UNCHANGED << client, raised, disconnect_calls, client_calls >>

\* line 246: await self._refresh()
StartupRefresh ==
    /\ pc = "startup_refresh"
    /\ Refreshing
    /\ Operate
    /\ UNCHANGED << available_tools, localVars, cycleVars >>

\* line 255: input() raises (end of input, interrupt)
InputFails ==
    /\ pc = "await_input"
    /\ Leave(client, "input")
    /\ UNCHANGED << agentVars, localVars, cycleVars, late_ops, refreshVars >>

\* lines 258-261: goodbye
Goodbye ==
    /\ pc = "await_input"
    /\ \E line \in Inputs :
         /\ lower(line) = "goodbye"
         /\ prompt' = line
    /\ Leave(client, "none")
    /\ UNCHANGED << agentVars, loopVars, cycleVars, late_ops, refreshVars >>

\* the locals of the previous query cycle are not read again: line 291
\* rebinds the conversation before the next model call
ForgetCycle ==
    /\ selected_resource_names' = << >>
    /\ selected_prompt_names' = << >>
    /\ context_messages' = << >>
    /\ system_instructions' = << >>
    /\ conversation_messages' = << >>
    /\ tool_loop_iteration' = 0
    /\ tool_idx' = 0
    /\ tool_results' = << >>
    /\ cycle' = NewCycle
    /\ round_calls' = << >>
    /\ sel_replies' = NoReplies
    /\ loads' = NoLoads

\* a refresh command that lists the tools again
ToolsRelisted(tools, server_tools) == server_tools

\* lines 263-266 and _refresh assign no tool catalog: what the server lists
\* at the time of the command is not asked for, and the local keeps the
\* catalog of line 244
ToolsAfterRefresh(tools, server_tools) == tools

\* lines 263-266: refresh; the line is no query, and the next pass of the
\* outer loop starts.  The server may list another tool catalog by now.
RefreshCommand ==
    /\ pc = "await_input"
    /\ \E line \in Inputs :
         /\ lower(line) # "goodbye"
         /\ lower(line) = "refresh"
         /\ prompt' = line
    /\ Refreshing
    /\ \E server_tools \in ToolCatalogs :
         available_tools' = ToolsAfterRefresh(available_tools, server_tools)
    /\ ForgetCycle
    /\ Operate

\* the replies of the resource-selection call in a session
ResourceReplies ==
    { CallFailed,
      Reply(<< Prose >>),
      Reply(<< LB, Str("r1") >>),
      Reply(<< Prose, LB, Str("r2"), Str("r9"), Str("r1"), RB, Prose >>) }

\* the replies of the prompt-selection call in a session
PromptReplies ==
    { CallFailed,
      Reply(<< Prose, RB >>),
      Reply(<< LB, Obj("p1", TRUE), RB, RB >>),
      Reply(<< LB, Obj("p9", TRUE), Obj("p2", TRUE), Obj("p1", TRUE), RB >>),
      Reply(<< LB, Obj("p1", FALSE), RB >>) }

\* what the fetch of one resource may do
Fetches ==
    { [ raised |-> TRUE,  contents |-> << >> ],
      [ raised |-> FALSE, contents |-> << PngPart, TextPart >> ],
      [ raised |-> FALSE, contents |-> << PdfPart, TextPart >> ] }

\* what the rendering of one prompt may do
Renders ==
    { [ raised |-> TRUE,  messages |-> << >> ],
      [ raised |-> FALSE, messages |-> << ImageMessage, TextMessage >> ],
      [ raised |-> FALSE, messages |-> << BlankMessage >> ] }

\* a conversation that puts the context before the query
InitialConversationContextFirst(line, context) ==
    << UserTurn(context \o << Text(line) >>) >>

\* lines 286-291: the conversation a query cycle starts with
InitialConversation(line, context) ==
    << UserTurn(<< Text(line) >> \o context) >>

\* lines 270-272: what the two selections return in a session, for every
\* catalog the server may list and every reply of the selection call
ResourceSelections ==
    [ catalog \in ResourceCatalogs |->
        [ reply \in ResourceReplies |-> _select_resources(catalog, reply) ] ]
PromptSelections ==
    [ catalog \in PromptCatalogs |->
        [ reply \in PromptReplies |-> _select_prompts(catalog, reply) ] ]

\* lines 268-296: any other line starts a query cycle: both selections, both
\* loadings and the initial conversation, up to the first main model call.
\* The loadings catch every error; an error of a selection would leave run.
StartQuery ==
    /\ pc = "await_input"
    /\ \E line \in Inputs, resource_reply \in ResourceReplies,
          prompt_reply \in PromptReplies :
         LET sr == ResourceSelections[available_resources][resource_reply]
             sp == PromptSelections[available_prompts][prompt_reply]
         IN /\ lower(line) # "goodbye"
            /\ lower(line) # "refresh"
            /\ prompt' = line
            /\ selected_resource_names' = sr.result
            /\ selected_prompt_names' = sp.result
            /\ sel_replies' =
                 [ resources |-> IF sr.called THEN Made(resource_reply) ELSE NoReply,
                   prompts   |-> IF sp.called THEN Made(prompt_reply) ELSE NoReply ]
            /\ IF sr.raised \/ sp.raised
               THEN /\ Leave(client, "select")
                    /\ cycle' = [ NewCycle EXCEPT
                                    !.select_calls = (IF sr.called THEN 1 ELSE 0)
                                                   + (IF sp.called THEN 1 ELSE 0) ]
                    /\ loads' = NoLoads
                    /\ UNCHANGED << context_messages, system_instructions,
                                    conversation_messages >>
               ELSE /\ \E fetches \in [ 1..Len(sr.result) -> Fetches ],
                          renders \in [ 1..Len(sp.result) -> Renders ] :
                         LET context == _load_selected_resources(
                                            sr.result, available_resources,
                                            client, fetches)
                             instructions == _load_selected_prompts(
                                                 sp.result, available_prompts,
                                                 client, renders)
                         IN /\ context_messages' = context
                            /\ system_instructions' = instructions
                            /\ conversation_messages' =
                                 InitialConversation(line, context)
                            /\ loads' =
                                 [ fetched |-> FetchesMade(1, sr.result,
                                                   available_resources, client, fetches),
                                   rendered |-> RendersMade(1, sp.result,
                                                   available_prompts, client, renders) ]
                            /\ cycle' = [ NewCycle EXCEPT
                                 !.select_calls = (IF sr.called THEN 1 ELSE 0)
                                                + (IF sp.called THEN 1 ELSE 0),
                                 !.instructed = (instructions # << >>) ]
                    /\ pc' = "call_model"
                    /\ UNCHANGED << client, raised, disconnect_calls, client_calls >>
    /\ tool_loop_iteration' = 0
    /\ tool_idx' = 0
    /\ tool_results' = << >>
    /\ round_calls' = << >>
    /\ Operate
    /\ UNCHANGED << agentVars, refreshVars >>

\* a loop that tests for tool_use blocks instead of the stop reason
AfterResponseByBlocks(response, conversation) ==
    IF response.stop_reason = "tool_use" /\ ToolUseBlocks(response.content) # << >>
    THEN [ pc |-> "exec_tools", conversation |-> conversation, answers |-> << >> ]
    ELSE [ pc |-> "await_input", conversation |-> conversation,
           answers |-> << FinalAnswer(response.content) >> ]

\* a loop that appends the user turn only when it has results
AfterResponseSkippingEmptyRound(response, conversation) ==
    IF response.stop_reason = "tool_use"
    THEN IF ToolUseBlocks(response.content) = << >>
         THEN [ pc |-> "call_model", conversation |-> conversation,
                answers |-> << >> ]
         ELSE [ pc |-> "exec_tools", conversation |-> conversation,
                answers |-> << >> ]
    ELSE [ pc |-> "await_input", conversation |-> conversation,
           answers |-> << FinalAnswer(response.content) >> ]

\* a loop that ends as soon as a response holds text
AfterResponseEndingOnText(response, conversation) ==
    IF response.stop_reason = "tool_use" /\ TextBlocks(response.content) = << >>
    THEN IF ToolUseBlocks(response.content) = << >>
         THEN [ pc |-> "call_model",
                conversation |-> AppendTurn(conversation, UserTurn(<< >>)),
                answers |-> << >> ]
         ELSE [ pc |-> "exec_tools", conversation |-> conversation,
                answers |-> << >> ]
    ELSE [ pc |-> "await_input", conversation |-> conversation,
           answers |-> << FinalAnswer(response.content) >> ]

\* lines 326-380: what follows the model's response, once the assistant turn
\* is appended: tools to execute, an empty tool round, or the final answer
AfterResponse(response, conversation) ==
    IF response.stop_reason = "tool_use"
    THEN IF ToolUseBlocks(response.content) = << >>
         THEN [ pc |-> "call_model",
                conversation |-> AppendTurn(conversation, UserTurn(<< >>)),
                answers |-> << >> ]
         ELSE [ pc |-> "exec_tools", conversation |-> conversation,
                answers |-> << >> ]
    ELSE [ pc |-> "await_input", conversation |-> conversation,
           answers |-> << FinalAnswer(response.content) >> ]

\* lines 301-311: the arguments of the main model call; "system" is among
\* them only for a non-empty instruction string
create_message_args(conversation, tools, instructions) ==
    [ messages |-> conversation, tools |-> tools,
      has_system |-> (instructions # << >>),
      system |-> instructions ]

\* the main model calls that were given a "system" argument
WithSystem(args) == IF args.has_system THEN 1 ELSE 0

\* the locals of the selection and loading steps are not read again
ForgetSelection ==
    /\ selected_resource_names' = << >>
    /\ selected_prompt_names' = << >>
    /\ context_messages' = << >>
    /\ sel_replies' = NoReplies
    /\ loads' = NoLoads

\* lines 297-316: the main model call raises
CallModelFails ==
    /\ pc = "call_model"
    /\ tool_loop_iteration < MaxToolIters
    /\ tool_loop_iteration' = tool_loop_iteration + 1
    /\ cycle' = [ cycle EXCEPT
                    !.main_calls = @ + 1,
                    !.main_failed = TRUE,
                    !.with_system = @ + WithSystem(create_message_args(
                        conversation_messages, available_tools, system_instructions)),
                    !.messages = create_message_args(
                        conversation_messages, available_tools,
                        system_instructions).messages,
                    !.tools = create_message_args(
                        conversation_messages, available_tools,
                        system_instructions).tools ]
    /\ Leave(client, "model")
    /\ ForgetSelection
    /\ Operate
    /\ UNCHANGED << agentVars, prompt, system_instructions, conversation_messages,
                    tool_idx, tool_results, round_calls, refreshVars >>

\* lines 297-380 without the tool executions: one iteration of the tool-use
\* loop up to its first tool invocation or its break
CallModel ==
    /\ pc = "call_model"
    /\ tool_loop_iteration < MaxToolIters
    /\ tool_loop_iteration' = tool_loop_iteration + 1
    /\ \E response \in Responses :
         /\ tool_loop_iteration + 1 = MaxToolIters => response.stop_reason # "tool_use"
         /\ LET args == create_message_args(conversation_messages, available_tools,
                                            system_instructions)
                r == AfterResponse(response,
                        AppendTurn(conversation_messages,
                                   AssistantTurn(response.content)))
                uses == IF response.stop_reason = "tool_use"
                        THEN ToolUseBlocks(response.content) ELSE << >>
            IN /\ conversation_messages' = r.conversation
               /\ pc' = r.pc
               /\ system_instructions' =
                    IF r.pc = "await_input" THEN << >> ELSE system_instructions
               /\ cycle' = [ cycle EXCEPT
                               !.main_calls = @ + 1,
                               !.with_system = @ + WithSystem(args),
                               !.wants_tools = WantsTools(response),
                               !.content = response.content,
                               !.messages = args.messages,
                               !.tools = args.tools,
                               !.requested = @ + Len(uses),
                               !.tool_use_responses =
                                   @ + (IF response.stop_reason = "tool_use" THEN 1 ELSE 0),
                               !.answers = @ \o r.answers ]
    /\ tool_idx' = 1
    /\ tool_results' = << >>
    /\ round_calls' = << >>
    /\ ForgetSelection
    /\ Operate
    /\ UNCHANGED << client, agentVars, prompt, raised, disconnect_calls,
                    client_calls, refreshVars >>

\* lines 338-360: one pass of the for loop over tool_use_blocks; the last
\* pass appends the user turn with the results
UseTool ==
    /\ pc = "exec_tools"
    /\ \E reply \in ToolReplies :
         LET tool_use == CurrentToolUses[tool_idx]
             used == use_tool(client, reply)
             results == Append(tool_results, ToolResult(tool_use, used.results))
         IN /\ round_calls' = Append(round_calls,
                                  [ name |-> tool_use.name, id |-> tool_use.id,
                                    outcome |-> ToolOutcome(reply, used) ])
            /\ IF used.raised # "none"
               THEN /\ Leave(client, "tool")
                    /\ UNCHANGED << tool_results, tool_idx, conversation_messages >>
               ELSE /\ tool_results' = results
                    /\ IF tool_idx = Len(CurrentToolUses)
                       THEN /\ conversation_messages' =
                                   AppendTurn(conversation_messages,
                                              UserTurn(results))
                            /\ pc' = "call_model"
                            /\ UNCHANGED tool_idx
                       ELSE /\ tool_idx' = tool_idx + 1
                            /\ UNCHANGED << pc, conversation_messages >>
                    /\ UNCHANGED << client, raised, disconnect_calls, client_calls >>
    /\ cycle' = [ cycle EXCEPT !.tool_calls = @ + 1 ]
    /\ Operate
    /\ UNCHANGED << agentVars, prompt, selected_resource_names,
                    selected_prompt_names, context_messages, system_instructions,
                    tool_loop_iteration, sel_replies, loads, refreshVars >>

Next ==
    \/ Connect
    \/ GetAvailableTools
    \/ StartupRefresh
    \/ InputFails
    \/ Goodbye
    \/ RefreshCommand
    \/ StartQuery
    \/ CallModelFails
    \/ CallModel
    \/ UseTool

Spec == Init /\ [][Next]_vars

\* Agent.run is one coroutine: inside the tool-use loop the next statement
\* is always executed, and a call that is awaited returns or raises
SpecLive == Spec /\ WF_vars(CallModel) /\ WF_vars(UseTool)

-----------------------------------------------------------------------------
(* The selections as functions of the catalog and of the model's reply *)

SelectTokens ==
    { LB, RB, Prose, Str("r1"), Str("r2"),
      Obj("p1", TRUE), Obj("p2", TRUE), ObjNoName }

\* every reply text of at most MaxTextLen tokens
SelectTexts == UNION { [ 1..n -> SelectTokens ] : n \in 0..MaxTextLen }

SelectReplies == { CallFailed } \cup { Reply(text) : text \in SelectTexts }

\* the catalogs a selection is run against
SelectCatalogs ==
    { [ resources |-> {},             prompts |-> {} ],
      [ resources |-> { "r1" },       prompts |-> { "p2" } ],
      [ resources |-> { "r1", "r2" }, prompts |-> { "p1", "p2" } ] }

InitSelect ==
    /\ pc = "select"
    /\ client = NewClient
    /\ \E catalog \in SelectCatalogs :
         /\ available_resources = catalog.resources
         /\ available_prompts = catalog.prompts
    /\ \E reply \in SelectReplies :
         sel_replies = [ resources |-> Made(reply), prompts |-> Made(reply) ]
    /\ available_tools = {}
    /\ prompt = "What is 2+2?"
    /\ selected_resource_names = << >>
    /\ selected_prompt_names = << >>
    /\ context_messages = << >>
    /\ system_instructions = << >>
    /\ conversation_messages = << >>
    /\ tool_loop_iteration = 0
    /\ tool_idx = 0
    /\ tool_results = << >>
    /\ raised = "none"
    /\ disconnect_calls = 0
    /\ late_ops = 0
    /\ cycle = NewCycle
    /\ round_calls = << >>
    /\ last_refresh = NoRefresh
    /\ dropped = {}
    /\ loads = NoLoads
    /\ client_calls = << >>

\* _select_resources applied to the reply
ApplySelectResources ==
    /\ pc = "select"
    /\ LET sr == _select_resources(available_resources, sel_replies.resources) IN
       /\ selected_resource_names' = sr.result
       /\ raised' = IF sr.raised THEN "select" ELSE "none"
       /\ cycle' = [ cycle EXCEPT !.select_calls = IF sr.called THEN 1 ELSE 0 ]
    /\ pc' = "selected_resources"
    /\ UNCHANGED << client, agentVars, prompt, selected_prompt_names,
                    context_messages, system_instructions, conversation_messages,
                    tool_loop_iteration, tool_idx, tool_results, disconnect_calls,
                    late_ops, round_calls, sel_replies, refreshVars, loads,
                    client_calls >>

\* _select_prompts applied to the reply
ApplySelectPrompts ==
    /\ pc = "select"
    /\ LET sp == _select_prompts(available_prompts, sel_replies.prompts) IN
       /\ selected_prompt_names' = sp.result
       /\ raised' = IF sp.raised THEN "select" ELSE "none"
       /\ cycle' = [ cycle EXCEPT !.select_calls = IF sp.called THEN 1 ELSE 0 ]
    /\ pc' = "selected_prompts"
    /\ UNCHANGED << client, agentVars, prompt, selected_resource_names,
                    context_messages, system_instructions, conversation_messages,
                    tool_loop_iteration, tool_idx, tool_results, disconnect_calls,
                    late_ops, round_calls, sel_replies, refreshVars, loads,
                    client_calls >>

NextSelect == ApplySelectResources \/ ApplySelectPrompts

SpecSelect == InitSelect /\ [][NextSelect]_vars

-----------------------------------------------------------------------------
(* The client on its own: any sequence of calls on one MCPClient *)

\* at most this many calls are made on the client
MaxClientCalls == 3

\* the methods that use the session
SessionOps ==
    { "use_tool", "get_resource", "load_prompt", "get_available_resources",
      "get_available_resource_templates", "get_available_tools",
      "get_available_prompts" }

\* the shape the seven methods share: the guard on _connected, then the one
\* request to the session, which may raise
SessionCall(c, session_raises) ==
    IF NotConnected(c)
    THEN [ raised |-> "not_connected", sent |-> FALSE ]
    ELSE IF session_raises
    THEN [ raised |-> "session", sent |-> TRUE ]
    ELSE [ raised |-> "none", sent |-> TRUE ]

InitClient ==
    /\ pc = "client"
    /\ client = NewClient
    /\ available_resources = {}
    /\ available_prompts = {}
    /\ available_tools = {}
    /\ prompt = ""
    /\ selected_resource_names = << >>
    /\ selected_prompt_names = << >>
    /\ context_messages = << >>
    /\ system_instructions = << >>
    /\ conversation_messages = << >>
    /\ tool_loop_iteration = 0
    /\ tool_idx = 0
    /\ tool_results = << >>
    /\ raised = "none"
    /\ disconnect_calls = 0
    /\ late_ops = 0
    /\ cycle = NewCycle
    /\ round_calls = << >>
    /\ sel_replies = NoReplies
    /\ last_refresh = NoRefresh
    /\ dropped = {}
    /\ loads = NoLoads
    /\ client_calls = << >>

\* what a call on the client leaves alone
clientFrame == << pc, agentVars, localVars, cycleVars, refreshVars, raised,
                 late_ops >>

\* MCPClient.connect is called
ClientConnect ==
    /\ pc = "client"
    /\ Len(client_calls) < MaxClientCalls
    /\ \E outcome \in ConnectOutcomes :
         LET r == connect(client, outcome) IN
         /\ client' = r.client
         /\ client_calls' =
              Append(client_calls,
                     Call("connect", outcome,
                          IF r.raised THEN "connect" ELSE "none",
                          ConnectSends(client, outcome), client, r.client))
    /\ UNCHANGED << clientFrame, disconnect_calls >>

\* MCPClient.disconnect is called
ClientDisconnect ==
    /\ pc = "client"
    /\ Len(client_calls) < MaxClientCalls
    /\ client' = disconnect(client)
    /\ disconnect_calls' = disconnect_calls + 1
    /\ client_calls' =
         Append(client_calls,
                Call("disconnect", "ok", "none", FALSE, client, disconnect(client)))
    /\ UNCHANGED clientFrame

\* one of the methods that use the session is called
ClientOperation ==
    /\ pc = "client"
    /\ Len(client_calls) < MaxClientCalls
    /\ \E op \in SessionOps, session_raises \in BOOLEAN :
         LET r == SessionCall(client, session_raises) IN
         client_calls' =
             Append(client_calls,
                    Call(op, IF session_raises THEN "fail" ELSE "ok",
                         r.raised, r.sent, client, client))
    /\ UNCHANGED << client, clientFrame, disconnect_calls >>

NextClient == ClientConnect \/ ClientDisconnect \/ ClientOperation

SpecClient == InitClient /\ [][NextClient]_vars

-----------------------------------------------------------------------------
(* Properties *)

\* C1: however a run of Agent.run ends (goodbye, a failed connect, a failed
\* listing, a failed model call or tool invocation), MCPClient.disconnect is
\* called exactly once, and no transport or model operation follows it.
C1_DisconnectOnceAndLast ==
    /\ pc = "done" => disconnect_calls = 1
    /\ pc # "done" => disconnect_calls = 0
    /\ late_ops = 0

\* a run ended by a failed tool invocation, after one disconnect
C1_Witness ==
    /\ pc = "done"
    /\ raised = "tool"
    /\ disconnect_calls = 1
    /\ cycle.tool_calls >= 1

\* the ids of a sequence of blocks
ToolUseIds(blocks) == [ i \in 1..Len(blocks) |-> blocks[i].id ]
ResultIds(blocks) == [ i \in 1..Len(blocks) |-> blocks[i].tool_use_id ]
ToolUseNames(blocks) == [ i \in 1..Len(blocks) |-> blocks[i].name ]
CalledNames(calls) == [ i \in 1..Len(calls) |-> calls[i].name ]

\* C2: a user turn appended after a tool_use response holds exactly one
\* tool_result block per tool_use block of that response, with the same ids
\* in the same order, and the tools were invoked in that order, one by one.
C2_ResultsFollowRequests ==
    /\ \A i \in 2..Len(conversation_messages) :
         conversation_messages[i].role = "user" =>
            LET uses == ToolUseBlocks(conversation_messages[i - 1].content)
                results == conversation_messages[i].content
            IN /\ Len(results) = Len(uses)
               /\ \A j \in 1..Len(results) : results[j].type = "tool_result"
               /\ ResultIds(results) = ToolUseIds(uses)
    /\ pc = "exec_tools" =>
         /\ Len(round_calls) = tool_idx - 1
         /\ CalledNames(round_calls) =
              SubSeq(ToolUseNames(CurrentToolUses), 1, tool_idx - 1)
    /\ ( /\ pc = "call_model"
         /\ Len(conversation_messages) > 1 ) =>
         CalledNames(round_calls) =
            ToolUseNames(ToolUseBlocks(
                conversation_messages[Len(conversation_messages) - 1].content))

\* the results of the two tools B, A of one response, in that order
C2_Witness ==
    /\ pc = "call_model"
    /\ Len(conversation_messages) = 3
    /\ ResultIds(conversation_messages[3].content) = << "B", "A" >>
    /\ CalledNames(round_calls) = << "mul", "add" >>

\* C3: a query cycle in which every call succeeds and the model gives k
\* tool_use responses and then another one invokes exactly the tools those k
\* responses request, displays one answer and ends with 2k+2 messages.
C3_CycleCounts ==
    cycle.answers # << >> =>
        /\ cycle.tool_calls = cycle.requested
        /\ Len(cycle.answers) = 1
        /\ cycle.main_calls = cycle.tool_use_responses + 1
        /\ Len(conversation_messages) = 2 * cycle.tool_use_responses + 2

\* one tool_use response requesting one tool, then the answer: 4 messages
C3_Witness ==
    /\ pc = "await_input"
    /\ cycle.answers = << "4" >>
    /\ cycle.tool_use_responses = 1
    /\ cycle.requested = 1
    /\ cycle.tool_calls = 1
    /\ Len(conversation_messages) = 4

\* the reply has both brackets and the text between them decodes
Decodes(reply) ==
    /\ reply.made
    /\ ~ reply.failed
    /\ HasToken(reply.text, LB)
    /\ HasToken(reply.text, RB)
    /\ json_loads(json_part(reply.text)).ok

\* the array a decodable reply holds
DecodedArray(reply) == json_loads(json_part(reply.text)).value

\* the objects with a name of this catalog
CatalogObjects(catalog) == { Obj(n, a) : n \in catalog, a \in BOOLEAN }

\* C4: _select_resources returns exactly the elements of the decoded array
\* that are names of the resource catalog, in the model's order, and
\* _select_prompts exactly the decoded objects whose name is in the prompt
\* catalog, in order; no name outside the catalog is returned.
C4_SelectionIsCatalogFilter ==
    /\ ( pc = "selected_resources" /\ Decodes(sel_replies.resources) ) =>
         selected_resource_names =
            StrValues(FilterSeq(DecodedArray(sel_replies.resources),
                                { Str(n) : n \in available_resources }))
    /\ ( pc = "selected_prompts" /\ Decodes(sel_replies.prompts) ) =>
         selected_prompt_names =
            FilterSeq(DecodedArray(sel_replies.prompts),
                      CatalogObjects(available_prompts))
    /\ Range(selected_resource_names) \subseteq available_resources
    /\ \A p \in Range(selected_prompt_names) : p.v \in available_prompts

\* C5: with an empty resource catalog _select_resources returns the empty
\* list without a model call, and so does _select_prompts with an empty
\* prompt catalog; with both empty a query cycle makes no selection call.
C5_NoCallForEmptyCatalog ==
    /\ ( pc = "call_model" /\ tool_loop_iteration = 0 ) =>
         /\ available_resources = {} =>
              /\ ~ sel_replies.resources.made
              /\ selected_resource_names = << >>
         /\ available_prompts = {} =>
              /\ ~ sel_replies.prompts.made
              /\ selected_prompt_names = << >>
    /\ pc \in { "call_model", "exec_tools" } =>
         cycle.select_calls <= (IF available_resources = {} THEN 0 ELSE 1)
                             + (IF available_prompts = {} THEN 0 ELSE 1)

\* a query cycle with both catalogs empty, after its first main model call
C5_Witness ==
    /\ pc = "call_model"
    /\ available_resources = {}
    /\ available_prompts = {}
    /\ cycle.main_calls = 1
    /\ cycle.select_calls = 0

\* the selection call failed, or its text lacks a bracket, or the text from
\* the first "[" to the last "]" does not decode
FailedReply(reply) ==
    /\ reply.made
    /\ \/ reply.failed
       \/ ~ HasToken(reply.text, LB)
       \/ ~ HasToken(reply.text, RB)
       \/ ~ json_loads(json_part(reply.text)).ok

\* C6: when the selection call fails, or its output has no "[" or no "]", or
\* the bracketed part does not decode, the selection is empty, nothing is
\* raised, and the query cycle goes on to the main model call.
C6_FailedSelectionIsEmpty ==
    /\ FailedReply(sel_replies.resources) =>
         /\ selected_resource_names = << >>
         /\ raised = "none"
         /\ pc = "call_model"
    /\ FailedReply(sel_replies.prompts) =>
         /\ selected_prompt_names = << >>
         /\ raised = "none"
         /\ pc = "call_model"

\* a truncated resource reply and a prompt reply without "[", with the
\* cycle at its first main model call
C6_Witness ==
    /\ pc = "call_model"
    /\ sel_replies.resources.made
    /\ ~ sel_replies.resources.failed
    /\ HasToken(sel_replies.resources.text, LB)
    /\ ~ HasToken(sel_replies.resources.text, RB)
    /\ sel_replies.prompts.made
    /\ ~ HasToken(sel_replies.prompts.text, LB)
    /\ selected_resource_names = << >>
    /\ selected_prompt_names = << >>

\* C7: when the array decoded by _select_prompts holds an object without a
\* name key beside well-formed objects whose names are in the catalog, only
\* the malformed object is left out.
C7_OnlyMalformedObjectExcluded ==
    ( /\ pc = "selected_prompts"
      /\ Decodes(sel_replies.prompts)
      /\ \A i \in 1..Len(DecodedArray(sel_replies.prompts)) :
            DecodedArray(sel_replies.prompts)[i].t = "obj"
      /\ ObjNoName \in Range(DecodedArray(sel_replies.prompts))
      /\ Range(DecodedArray(sel_replies.prompts))
            \cap CatalogObjects(available_prompts) # {} ) =>
        selected_prompt_names =
            FilterSeq(DecodedArray(sel_replies.prompts),
                      CatalogObjects(available_prompts))

\* C8: a failed main model call ends its query cycle only: the session goes
\* back to awaiting input, still connected.
C8_ModelFailureEndsCycleOnly ==
    cycle.main_failed =>
        /\ pc = "await_input"
        /\ client.connected
        /\ raised = "none"

\* the tool_result blocks the conversation holds or is about to hold
PendingResults ==
    IF pc = "call_model" /\ Len(conversation_messages) > 1
    THEN conversation_messages[Len(conversation_messages)].content
    ELSE tool_results

\* C9: a tool invocation that fails while the transport is reachable (an
\* error payload, an error answered by the server) becomes a tool_result
\* block with the request's id and the loop goes on; nothing is raised.
C9_ToolFailureBecomesResult ==
    \A i \in 1..Len(round_calls) :
        round_calls[i].outcome \in { "error_payload", "mcp_error" } =>
            /\ raised = "none"
            /\ pc \in { "exec_tools", "call_model" }
            /\ \E j \in 1..Len(PendingResults) :
                  PendingResults[j].tool_use_id = round_calls[i].id

\* C10: a _refresh replaces both catalogs by the newly listed ones or leaves
\* both unchanged, also when it fails partway.
C10_RefreshAllOrNothing ==
    [][ \/ /\ available_resources' = available_resources
           /\ available_prompts' = available_prompts
        \/ /\ last_refresh'.outcome = "ok"
           /\ available_resources' = last_refresh'.resources
           /\ available_prompts' = last_refresh'.prompts ]_vars

\* the names a sequence of loads or of selected prompts holds
LoadedNames(made) == { made[i].name : i \in 1..Len(made) }
SelectedPromptNames == { selected_prompt_names[i].v : i \in 1..Len(selected_prompt_names) }

\* C11: after a successful refresh both catalogs are exactly what the server
\* listed at that refresh, and a name the refresh removed is neither returned
\* by a selection nor fetched or rendered afterwards, even when the model
\* names it.
C11_RefreshReplacesCatalogs ==
    /\ last_refresh.outcome = "ok" =>
         /\ available_resources = last_refresh.resources
         /\ available_prompts = last_refresh.prompts
    /\ Range(selected_resource_names) \cap dropped = {}
    /\ SelectedPromptNames \cap dropped = {}
    /\ LoadedNames(loads.fetched) \cap dropped = {}
    /\ LoadedNames(loads.rendered) \cap dropped = {}

\* the refresh removed r2, the model then names r2, r9 and r1, and only r1 is
\* selected and fetched
C11_Witness ==
    /\ pc = "call_model"
    /\ dropped = { "r2" }
    /\ available_resources = { "r1" }
    /\ Str("r2") \in Range(sel_replies.resources.text)
    /\ selected_resource_names = << "r1" >>
    /\ LoadedNames(loads.fetched) = { "r1" }

\* the spellings of a command word that are equal to it ignoring case
IgnoringCase(word) ==
    CASE word = "goodbye" -> { "goodbye", "Goodbye", "GOODBYE" }
      [] word = "refresh" -> { "refresh", "Refresh", "REFRESH" }
      [] OTHER -> { word }

Released(c) == ~ c.connected /\ ~ c.session /\ c.exit_stack = << >>

\* C13: a connect on a connected client fails, starts no subprocess and no
\* session, and leaves the client connected with the session it has; a
\* connect that follows a disconnect is accepted.
C13_SecondConnectRefused ==
    \A i \in 1..Len(client_calls) :
        client_calls[i].op = "connect" =>
            /\ client_calls[i].before.connected =>
                 /\ client_calls[i].raised # "none"
                 /\ ~ client_calls[i].sent
                 /\ client_calls[i].after = client_calls[i].before
                 /\ client_calls[i].after.connected
                 /\ client_calls[i].after.session
            /\ ( i > 1 /\ client_calls[i - 1].op = "disconnect"
                      /\ client_calls[i].outcome = "ok" ) =>
                 /\ client_calls[i].raised = "none"
                 /\ client_calls[i].after.connected
                 /\ client_calls[i].after.session
                 /\ client_calls[i].after.exit_stack = << "stdio", "session" >>

\* a connect that succeeded, then a second connect, refused
C13_Witness ==
    /\ Len(client_calls) >= 2
    /\ client_calls[1].op = "connect"
    /\ client_calls[1].raised = "none"
    /\ client_calls[2].op = "connect"
    /\ client_calls[2].outcome = "ok"
    /\ client_calls[2].raised # "none"
    /\ client.connected
    /\ client.exit_stack = << "stdio", "session" >>

\* C14: on a client that is not connected (new, after a failed connect,
\* after a disconnect) each of the seven methods that use the session fails
\* with the not-connected error, sends nothing to the session and changes no
\* field of the client.
C14_NotConnectedRefuses ==
    \A i \in 1..Len(client_calls) :
        ( client_calls[i].op \in SessionOps /\ ~ client_calls[i].before.connected ) =>
            /\ client_calls[i].raised = "not_connected"
            /\ ~ client_calls[i].sent
            /\ client_calls[i].after = client_calls[i].before

\* a connect that failed at initialize, which leaves a session object,
\* then load_prompt refused, then a disconnect and use_tool refused
C14_Witness ==
    /\ Len(client_calls) = 3
    /\ client_calls[1].op = "connect"
    /\ client_calls[1].outcome = "initialize_fail"
    /\ client_calls[2].op = "load_prompt"
    /\ client_calls[2].before.session
    /\ client_calls[2].raised = "not_connected"
    /\ client_calls[3].op = "get_available_resource_templates"
    /\ client_calls[3].raised = "not_connected"

\* C15: disconnect raises nothing; on a client that holds nothing it leaves
\* the client as it is; and a disconnect after a disconnect leaves what the
\* first one left.
C15_DisconnectIdempotent ==
    \A i \in 1..Len(client_calls) :
        client_calls[i].op = "disconnect" =>
            /\ client_calls[i].raised = "none"
            /\ Released(client_calls[i].after)
            /\ Released(client_calls[i].before) =>
                 client_calls[i].after = client_calls[i].before
            /\ ( i > 1 /\ client_calls[i - 1].op = "disconnect" ) =>
                 client_calls[i].after = client_calls[i - 1].after

\* a connect, a disconnect and a second disconnect
C15_Witness ==
    /\ Len(client_calls) = 3
    /\ client_calls[1].op = "connect"
    /\ client_calls[1].raised = "none"
    /\ client_calls[2].op = "disconnect"
    /\ client_calls[3].op = "disconnect"
    /\ client_calls[3].after = client_calls[2].after
    /\ Released(client)

\* C16: after a disconnect the client holds nothing of what the connect
\* before it acquired, also when that connect failed partway; and Agent.run
\* ends, on every path, with a disconnect that leaves the client so.
C16_DisconnectReleases ==
    /\ \A i \in 1..Len(client_calls) :
          client_calls[i].op = "disconnect" => Released(client_calls[i].after)
    /\ pc = "done" =>
          /\ Released(client)
          /\ client_calls # << >>
          /\ client_calls[Len(client_calls)].op = "disconnect"
          /\ client_calls[Len(client_calls)].after = client

\* Agent.run ended by a connect that failed at initialize, holding the
\* subprocess channel and the session until the disconnect
C16_Witness ==
    /\ pc = "done"
    /\ Len(client_calls) = 2
    /\ client_calls[1].op = "connect"
    /\ client_calls[1].outcome = "initialize_fail"
    /\ client_calls[1].after.exit_stack = << "stdio", "session" >>
    /\ client_calls[2].op = "disconnect"
    /\ client_calls[2].before = client_calls[1].after
    /\ Released(client)

\* the state a query cycle is in before its first main model call
BeforeFirstCall == pc = "call_model" /\ tool_loop_iteration = 0

\* the names of a sequence of loads, in call order
LoadNames(made) == [ i \in 1..Len(made) |-> made[i].name ]

RECURSIVE BlocksOfFetches(_)
\* the blocks of the fetches that returned, each resource on its own
BlocksOfFetches(fetched) ==
    IF fetched = << >> THEN << >>
    ELSE ( IF Head(fetched).raised THEN << >>
           ELSE BlocksOf(Head(fetched).name, Head(fetched).contents) )
         \o BlocksOfFetches(Tail(fetched))

\* the instruction of one render that returned: none when no message of it
\* has text that is not blank
InstructionOfRender(r) ==
    IF r.raised \/ \A i \in 1..Len(PromptText(r.messages)) :
                      IsBlank(PromptText(r.messages)[i])
    THEN << >>
    ELSE << [ prompt |-> r.name, text |-> PromptText(r.messages) ] >>

RECURSIVE InstructionsOfRenders(_)
InstructionsOfRenders(rendered) ==
    IF rendered = << >> THEN << >>
    ELSE InstructionOfRender(Head(rendered))
         \o InstructionsOfRenders(Tail(rendered))

\* the selected prompts whose arguments can be read
WithArguments(prompts) ==
    FilterSeq(prompts, { Obj(n, TRUE) : n \in PromptNames })

\* C17: a fetch or a render that fails skips that item only: every selected
\* item is fetched or rendered, in order, the blocks of the others are in
\* the result, nothing is raised, and the cycle reaches its main model call.
C17_LoadFailureSkipsOneItem ==
    /\ loads # NoLoads => ( BeforeFirstCall /\ raised = "none" )
    /\ BeforeFirstCall =>
         /\ LoadNames(loads.fetched) = selected_resource_names
         /\ context_messages = BlocksOfFetches(loads.fetched)
         /\ LoadNames(loads.rendered) =
                StrValues(WithArguments(selected_prompt_names))
         /\ system_instructions = InstructionsOfRenders(loads.rendered)

\* the first fetch and the first render fail, the second ones give their
\* blocks
C17_Witness ==
    /\ BeforeFirstCall
    /\ Len(loads.fetched) = 2
    /\ loads.fetched[1].raised
    /\ ~ loads.fetched[2].raised
    /\ Len(context_messages) = 2
    /\ Len(loads.rendered) = 2
    /\ loads.rendered[1].raised
    /\ ~ loads.rendered[2].raised
    /\ Len(system_instructions) = 1
    /\ system_instructions[1].prompt = "p1"

RECURSIVE ClassifiedBlocks(_, _)
\* the blocks of the content parts of one resource when a part of another
\* kind is skipped and the parts after it are still classified
ClassifiedBlocks(resource_name, contents) ==
    IF contents = << >> THEN << >>
    ELSE ( IF Head(contents).kind = "text"
           THEN << [ type |-> "text", resource |-> resource_name,
                     text |-> Head(contents).body ] >>
           ELSE IF Head(contents).mimeType \in ImageTypes
           THEN << [ type |-> "image", media_type |-> Head(contents).mimeType,
                     data |-> Head(contents).body ] >>
           ELSE << >> )
         \o ClassifiedBlocks(resource_name, Tail(contents))

RECURSIVE ClassifiedBlocksOfFetches(_)
ClassifiedBlocksOfFetches(fetched) ==
    IF fetched = << >> THEN << >>
    ELSE ( IF Head(fetched).raised THEN << >>
           ELSE ClassifiedBlocks(Head(fetched).name, Head(fetched).contents) )
         \o ClassifiedBlocksOfFetches(Tail(fetched))

\* C18: a content part that is neither text nor a JPEG, PNG, GIF or WEBP
\* image gives no context block, and the parts after it in the same resource
\* still give theirs.
C18_OtherPartOnlySkipped ==
    BeforeFirstCall => context_messages = ClassifiedBlocksOfFetches(loads.fetched)

\* the first text block of a response that is not blank, or the placeholder
FirstText(content) ==
    IF \E i \in 1..Len(content) :
          content[i].type = "text" /\ content[i].text \notin { "", " " }
    THEN content[CHOOSE i \in 1..Len(content) :
                    /\ content[i].type = "text"
                    /\ content[i].text \notin { "", " " }
                    /\ \A j \in 1..(i - 1) :
                          content[j].type # "text" \/ content[j].text \in { "", " " }].text
    ELSE "[No text response available]"

\* C19: a response with another stop reason than tool_use ends the loop with
\* no tool invoked for it, also when it holds tool_use blocks; the answer is
\* its first text block that is not blank, or the placeholder; a cycle
\* displays one answer.
C19_FinalAnswer ==
    /\ Len(cycle.answers) <= 1
    /\ cycle.answers # << >> =>
         /\ pc \in { "await_input", "done" }
         /\ conversation_messages[Len(conversation_messages)].role = "assistant"
         /\ cycle.answers =
               << FirstText(conversation_messages[Len(conversation_messages)].content) >>
         /\ round_calls = << >>
         /\ cycle.tool_calls = cycle.requested

\* a final response that holds two tool_use blocks after its text: none is
\* invoked and the text is the answer
C19_Witness ==
    /\ pc = "await_input"
    /\ cycle.answers = << "Let me compute." >>
    /\ ToolUseBlocks(conversation_messages[Len(conversation_messages)].content) # << >>
    /\ cycle.tool_calls = 0
    /\ cycle.main_calls = 1

\* C20: the first main model call of a cycle gets one user turn, the query
\* text block followed by the context blocks in load order (the text block
\* alone when nothing was loaded), and the main model calls of a cycle get
\* the system instructions only when the loaded string is not empty.
C20_FirstCallConversation ==
    /\ BeforeFirstCall =>
         /\ conversation_messages =
               << [ role |-> "user",
                    content |-> << [ type |-> "text", text |-> prompt ] >>
                                \o context_messages ] >>
         /\ context_messages = << >> =>
               conversation_messages[1].content = << [ type |-> "text", text |-> prompt ] >>
    /\ pc \in { "call_model", "exec_tools" } =>
         cycle.instructed = (system_instructions # << >>)
    /\ cycle.with_system = IF cycle.instructed THEN cycle.main_calls ELSE 0

\* a cycle with two context blocks and an instruction, after its two main
\* model calls
C20_Witness ==
    /\ pc = "await_input"
    /\ cycle.answers # << >>
    /\ Len(conversation_messages[1].content) = 3
    /\ conversation_messages[1].content[1] = [ type |-> "text", text |-> prompt ]
    /\ cycle.instructed
    /\ cycle.main_calls = 2
    /\ cycle.with_system = 2

\* the tool-use loop of a query cycle is running
InLoop == pc \in { "call_model", "exec_tools" }

\* C21: the tool-use loop is left only by a response whose stop reason is
\* not tool_use, which gives the answer and returns to awaiting input, or by
\* an error of a model call or of a tool invocation; while the latest
\* response has stop reason tool_use and nothing was raised the loop runs;
\* and a loop that is running leads to the displayed answer and the return
\* to awaiting input, unless a call fails.
C21_LoopExit ==
    /\ [][ ( InLoop /\ ~ InLoop' ) =>
             \/ /\ pc' = "await_input"
                /\ raised' = "none"
                /\ cycle'.main_calls = cycle.main_calls + 1
                /\ ~ cycle'.wants_tools
                /\ Len(cycle'.answers) = 1
             \/ /\ pc' = "done"
                /\ raised' \in { "model", "tool" } ]_vars
    /\ [] ( ( cycle.wants_tools /\ raised = "none" ) => InLoop )
    /\ ( InLoop ~> ( \/ pc = "await_input" /\ cycle.answers # << >>
                     \/ raised # "none" ) )

\* a loop left by the answer that followed a response asking for two tools
C21_Witness ==
    /\ pc = "await_input"
    /\ ~ cycle.wants_tools
    /\ cycle.tool_use_responses = 1
    /\ cycle.tool_calls = 2
    /\ cycle.main_calls = 2
    /\ Len(cycle.answers) = 1

\* s is t or the beginning of t
IsPrefix(s, t) == Len(s) <= Len(t) /\ SubSeq(t, 1, Len(s)) = s

\* C22: inside a query cycle every step keeps the conversation as it is or
\* appends at its end (the assistant turn, the user turn with the results),
\* so the messages given to a model call begin with the messages given to
\* the call before it; and a query starts its cycle with a conversation of
\* one message, the user turn of that query, whatever the conversation of
\* the cycle before held.
C22_AppendOnly ==
    [][ /\ InLoop =>
             /\ IsPrefix(conversation_messages, conversation_messages')
             /\ Len(conversation_messages') <= Len(conversation_messages) + 2
             /\ cycle'.main_calls > cycle.main_calls =>
                  /\ cycle'.messages = conversation_messages
                  /\ IsPrefix(cycle.messages, cycle'.messages)
                  /\ Len(conversation_messages') > Len(conversation_messages)
                       \/ raised' = "model"
        /\ ( pc = "await_input" /\ pc' = "call_model" ) =>
             /\ conversation_messages' =
                   << UserTurn(<< Text(prompt') >> \o context_messages') >>
             /\ cycle'.messages = << >> ]_vars

\* the second model call of a cycle was given the three messages the
\* conversation began with, the first call's message among them
C22_Witness ==
    /\ pc = "await_input"
    /\ cycle.main_calls = 2
    /\ Len(conversation_messages) = 4
    /\ Len(cycle.messages) = 3
    /\ cycle.messages = SubSeq(conversation_messages, 1, 3)
    /\ conversation_messages[4].role = "assistant"

\* C23: the roles of the conversation alternate, the first being user; a
\* main model call is made on a conversation that ends with a user turn; and
\* the assistant turn that follows the messages of the latest call holds the
\* content of that call's response, block for block.
C23_RolesAlternate ==
    /\ \A i \in 1..Len(conversation_messages) :
          conversation_messages[i].role =
             IF i % 2 = 1 THEN "user" ELSE "assistant"
    /\ pc = "call_model" =>
          conversation_messages[Len(conversation_messages)].role = "user"
    /\ cycle.main_calls > 0 =>
          /\ cycle.messages # << >>
          /\ cycle.messages[Len(cycle.messages)].role = "user"
          /\ IsPrefix(cycle.messages, conversation_messages)
    /\ ( cycle.main_calls > 0 /\ ~ cycle.main_failed ) =>
          /\ Len(conversation_messages) > Len(cycle.messages)
          /\ conversation_messages[Len(cycle.messages) + 1] =
                [ role |-> "assistant", content |-> cycle.content ]

\* user, assistant, user: the response with a text block and two tool_use
\* blocks is the second message as it came, the results are the third
C23_Witness ==
    /\ pc = "call_model"
    /\ cycle.main_calls = 1
    /\ Len(conversation_messages) = 3
    /\ Len(cycle.content) = 3
    /\ conversation_messages[2].content = cycle.content
    /\ conversation_messages[3].role = "user"
    /\ Len(conversation_messages[3].content) = 2

\* the latest main model call returned a response with stop reason tool_use
\* and no tool_use block
EmptyToolRound ==
    /\ cycle.main_calls > 0
    /\ ~ cycle.main_failed
    /\ cycle.wants_tools
    /\ ToolUseBlocks(cycle.content) = << >>

\* C24: after a response with stop reason tool_use and no tool_use block no
\* tool is invoked, the conversation is the messages of that call, the
\* assistant turn and a user turn with an empty list of results, nothing is
\* raised, and the loop is at its next model call.
C24_EmptyToolRound ==
    EmptyToolRound =>
        /\ pc = "call_model"
        /\ tool_loop_iteration < MaxToolIters
        /\ raised = "none"
        /\ round_calls = << >>
        /\ cycle.tool_calls = cycle.requested
        /\ cycle.answers = << >>
        /\ conversation_messages =
              cycle.messages
                \o << [ role |-> "assistant", content |-> cycle.content ],
                      [ role |-> "user", content |-> << >> ] >>

\* the loop at the model call that follows a tool_use response holding a
\* text block and no tool_use block: three messages, the last an empty user
\* turn, no tool invoked
C24_Witness ==
    /\ EmptyToolRound
    /\ cycle.content = << Text("Let me think.") >>
    /\ pc = "call_model"
    /\ cycle.main_calls = 1
    /\ cycle.tool_calls = 0
    /\ Len(conversation_messages) = 3
    /\ conversation_messages[3] = [ role |-> "user", content |-> << >> ]
    /\ client_calls = << Call("connect", "ok", "none", TRUE, NewClient,
                              connect(NewClient, "ok").client) >>

\* C25: the tool catalog is listed once, at startup; no later step, the
\* refresh command included, changes it, whatever the server lists by then;
\* and every main model call is given that catalog.
C25_ToolsListedOnce ==
    /\ [][ /\ pc' = "list_tools" => pc = "start"
           /\ pc # "list_tools" => available_tools' = available_tools ]_vars
    /\ [] ( cycle.main_calls > 0 => cycle.tools = available_tools )

\* a refresh command removed a resource from the catalog, and the model
\* call of the query after it was given the two tools listed at startup
C25_Witness ==
    /\ dropped # {}
    /\ last_refresh.outcome = "ok"
    /\ cycle.main_calls = 1
    /\ cycle.tools = ToolNames
    /\ available_tools = ToolNames

====
